---------------------------- MODULE Spec2Model ----------------------------
(***************************************************************************)
(* Keyglove: motion support for the hand-mounted MPU-6050                  *)
(* (support_motion_mpu6050_hand.h).                                        *)
(*                                                                         *)
(* Two contexts share the state: the interrupt service routine             *)
(* motion_mpu6050_hand_interrupt, which may run between any two steps of   *)
(* the polling context while the handler is attached, and the polling      *)
(* context (the main loop), which runs setup_motion_mpu6050_hand once,     *)
(* then polls the flag, runs update_motion_mpu6050_hand and serves mode    *)
(* commands through motion_set_mpu6050_hand_mode.  pc is the position of   *)
(* the polling context.  A handler is cut into steps only where the ISR    *)
(* can see or change what lies between them (the flag, the attachment).    *)
(***************************************************************************)
EXTENDS Integers, Sequences, FiniteSets

VARIABLES
    pc,                 \* position of the polling context
    mpuHandInterrupt,   \* the interrupt flag (the Latch)
    aaRaw, aa, aa0,     \* raw / filtered / last-iteration acceleration <<x,y,z>>
    gvRaw, gv, gv0,     \* raw / filtered / last-iteration rotation <<x,y,z>>
    skipPacket,         \* result of the last observer callback (uint8_t)
    inBinPacket,        \* a received binary command is being replayed
    mode,               \* argument of the running / last mode call
    attached,           \* the ISR is attached to the INT pin
    sleepEnabled,       \* the sensor is in its low-power mode
    payload,            \* the payload the last event built
    lastTx,             \* the last packet handed to send_keyglove_packet
    \* ---- history variables (never read by the program's actions) ----
    gate,               \* the last event offered to the dispatch gate: which
                        \* event, the callback it met, the packets sent for
                        \* it, skipPacket as the gate found it
    fired,              \* an interrupt fired since the flag was last cleared
    firings,            \* how many fired since then: 0, 1, 2 for two or more
    forced,             \* a mode call forced the flag since it was last cleared
    sinceEnable,        \* filter steps since the last enable (capped), 2 at start
    lastEnable,         \* what the last enable found: stale filter state, mode before
    lastPoll,           \* what the last poll did: "none", "skipped", "ran"
    nReads,             \* read sequences started
    nModes              \* mode calls made

vars == << pc, mpuHandInterrupt, aaRaw, aa, aa0, gvRaw, gv, gv0, skipPacket,
           inBinPacket, mode, attached, sleepEnabled, payload, lastTx,
           gate, fired, firings, forced, sinceEnable, lastEnable, lastPoll,
           nReads, nModes >>

motionState == << aaRaw, aa, aa0, gvRaw, gv, gv0 >>
history     == << gate, fired, firings, forced, sinceEnable, lastEnable, lastPoll,
                 nReads, nModes >>

----------------------------------------------------------------------------
(* Bounds of the model *)

MaxReads == 2
MaxModes == 3

(* The readings getMotion6 may return: ax, ay, az, gx, gy, gz *)
RawInputs ==
    { << 0, 0, 0, 0, 0, 0 >>,
      << 1000, 0, 0, 0, 0, 0 >>,
      << -32768, -1, 300, -300, 1, 32767 >>,
      << 32767, 1, -300, 300, -1, -32768 >> }

(* The mode argument (uint8_t): 0 disables, anything else enables *)
ModeArgs == { 0, 1, 2 }

(* What an observer callback returns (uint8_t) when one is registered *)
CallbackReturns == { 0, 1 }

----------------------------------------------------------------------------
(* Integer arithmetic of the target *)

Zero3 == << 0, 0, 0 >>

Int16Min == -32768
Int16Max == 32767

InInt16(v) == v >= Int16Min /\ v <= Int16Max

(* A value reduced to a signed 16-bit word, two's complement *)
Wrap16(v) ==
    LET u == v % 65536
    IN  IF u >= 32768 THEN u - 65536 ELSE u

(* C++ conversion of floating point to integer: the fraction is dropped,  *)
(* toward zero.  q is the value in quarters.                               *)
TruncQuarters(q) == IF q >= 0 THEN q \div 4 ELSE -((-q) \div 4)

(* a - b computed in int.  The operands are int16_t promoted to int; on    *)
(* the AVR target (the Teensy++ 2.0 whose INT4 pin setup configures) int   *)
(* is 16 bits wide, a difference outside it is signed overflow, undefined  *)
(* behaviour: the generated code wraps, and a build with a wider int gives *)
(* the exact difference.  Both outcomes are kept.                          *)
IntSub(a, b) ==
    IF InInt16(a - b) THEN { a - b } ELSE { Wrap16(a - b), a - b }

(* Conversion of the floating-point sum t (already truncated) to int16_t. *)
(* Out of range it is undefined: the conversion goes through a wider       *)
(* integer that is then cut to 16 bits, or saturates.                      *)
ToInt16(t) ==
    IF InInt16(t) THEN { t }
    ELSE { Wrap16(t), IF t > Int16Max THEN Int16Max ELSE Int16Min }

(* One axis of the smoothing filter: prev + (0.25 * (raw - prev)), the    *)
(* product and the sum in floating point (exact: quarters of integers      *)
(* below 2^17), assigned to an int16_t.  The set of possible results.      *)
Smooth(prev, raw) ==
    UNION { ToInt16(TruncQuarters(4 * prev + d)) : d \in IntSub(raw, prev) }

(* The filter on a vector, axis by axis *)
Smooth3(prev, raw) ==
    { << x, y, z >> : x \in Smooth(prev[1], raw[1]),
                      y \in Smooth(prev[2], raw[2]),
                      z \in Smooth(prev[3], raw[3]) }

----------------------------------------------------------------------------
(* Event payloads and the dispatch gate *)

(* v & 0xFF stored in a uint8_t *)
LowByte(v) == v % 256

(* v / 256, which rounds toward zero, in place of the shift *)
HighByteDivide(v) == (IF v >= 0 THEN v \div 256 ELSE -((-v) \div 256)) % 256

(* v >> 8 (arithmetic shift of the promoted int) stored in a uint8_t *)
HighByte(v) == (v \div 256) % 256

(* payload[0..14] of kg_evt_motion_data *)
MotionPayload(a, g) ==
    << 0, 3, 12,
       LowByte(a[1]), HighByte(a[1]),
       LowByte(a[2]), HighByte(a[2]),
       LowByte(a[3]), HighByte(a[3]),
       LowByte(g[1]), HighByte(g[1]),
       LowByte(g[2]), HighByte(g[2]),
       LowByte(g[3]), HighByte(g[3]) >>

(* The two bytes of the mode payload in the other order *)
ModePayloadSwapped(m) == << m, 0 >>

(* payload[0..1] of kg_evt_motion_mode *)
ModePayload(m) == << 0, m >>

(* An observer callback: the function pointer is null, or it is called    *)
(* and returns a uint8_t.                                                  *)
Callbacks ==
    { [registered |-> FALSE, ret |-> 0] }
        \cup { [registered |-> TRUE, ret |-> r] : r \in CallbackReturns }

(* The callback is called and its result dropped *)
GateSkipIgnored(cb) == 0

(* skipPacket after "skipPacket = 0; if (cb) skipPacket = cb(...)" *)
GateSkip(cb) == IF cb.registered THEN cb.ret ELSE 0

(* "if (!skipPacket) send_keyglove_packet(...)": the packets handed to   *)
(* the transport for this event                                            *)
GateSend(skip, id, data) ==
    IF skip = 0
    THEN << [id |-> id, len |-> Len(data), data |-> data] >>
    ELSE << >>

NoPacket == [id |-> "none", len |-> 0, data |-> << >>]
NoOffer  == [ev |-> "none", registered |-> FALSE, ret |-> 0, sent |-> 0,
             before |-> 0]

----------------------------------------------------------------------------
(* The state after construction: the globals are zero-initialised, no     *)
(* handler is attached, the sensor is in its power-on sleep.               *)
Init ==
    /\ pc = "boot"
    /\ mpuHandInterrupt = FALSE
    /\ aaRaw = Zero3 /\ aa = Zero3 /\ aa0 = Zero3
    /\ gvRaw = Zero3 /\ gv = Zero3 /\ gv0 = Zero3
    /\ skipPacket = 0
    /\ inBinPacket = FALSE
    /\ mode = 0
    /\ attached = FALSE
    /\ sleepEnabled = TRUE
    /\ payload = << >>
    /\ lastTx = NoPacket
    /\ gate = NoOffer
    /\ fired = FALSE
    /\ firings = 0
    /\ forced = FALSE
    /\ sinceEnable = 2
    /\ lastEnable = [stale |-> FALSE, from |-> 0]
    /\ lastPoll = "none"
    /\ nReads = 0
    /\ nModes = 0

----------------------------------------------------------------------------
(* A handler that toggles the flag instead of setting it *)
motion_mpu6050_hand_interrupt_toggle ==
    /\ attached
    /\ mpuHandInterrupt' = ~mpuHandInterrupt
    /\ fired' = TRUE
    /\ firings' = IF firings < 2 THEN firings + 1 ELSE 2
    /\ UNCHANGED << pc, motionState, skipPacket, inBinPacket, mode, attached,
                    sleepEnabled, payload, lastTx, gate, forced,
                    sinceEnable, lastEnable, lastPoll, nReads, nModes >>

(* A handler that takes the reading itself *)
motion_mpu6050_hand_interrupt_reads ==
    /\ attached
    /\ mpuHandInterrupt' = TRUE
    /\ fired' = TRUE
    /\ firings' = IF firings < 2 THEN firings + 1 ELSE 2
    /\ \E r \in RawInputs :
          /\ aaRaw' = << r[1], r[2], r[3] >>
          /\ gvRaw' = << r[4], r[5], r[6] >>
    /\ UNCHANGED << pc, aa, aa0, gv, gv0, skipPacket, inBinPacket, mode,
                    attached, sleepEnabled, payload, lastTx, gate, forced,
                    sinceEnable, lastEnable, lastPoll, nReads, nModes >>

(* The interrupt service routine.  It runs whenever the INT pin falls     *)
(* while the handler is attached, between any two steps of the polling     *)
(* context.                                                                *)
motion_mpu6050_hand_interrupt ==
    /\ attached
    /\ mpuHandInterrupt' = TRUE
    /\ fired' = TRUE
    /\ firings' = IF firings < 2 THEN firings + 1 ELSE 2
    /\ UNCHANGED << pc, motionState, skipPacket, inBinPacket, mode, attached,
                    sleepEnabled, payload, lastTx, gate, forced,
                    sinceEnable, lastEnable, lastPoll, nReads, nModes >>

(* A setup that leaves the flag set *)
setup_motion_mpu6050_hand_latched ==
    /\ pc = "boot"
    /\ mpuHandInterrupt' = TRUE
    /\ sleepEnabled' = FALSE
    /\ fired' = FALSE
    /\ firings' = 0
    /\ forced' = TRUE
    /\ pc' = "idle"
    /\ UNCHANGED << motionState, skipPacket, inBinPacket, mode, attached,
                    payload, lastTx, gate, sinceEnable, lastEnable,
                    lastPoll, nReads, nModes >>

(* setup_motion_mpu6050_hand: clears the flag and configures the sensor;  *)
(* mpuHand.initialize() wakes it.  No handler is attached and the mode is  *)
(* not set (the call is commented out).                                    *)
setup_motion_mpu6050_hand ==
    /\ pc = "boot"
    /\ mpuHandInterrupt' = FALSE
    /\ sleepEnabled' = FALSE
    /\ fired' = FALSE
    /\ firings' = 0
    /\ forced' = FALSE
    /\ pc' = "idle"
    /\ UNCHANGED << motionState, skipPacket, inBinPacket, mode, attached,
                    payload, lastTx, gate, sinceEnable, lastEnable,
                    lastPoll, nReads, nModes >>

----------------------------------------------------------------------------
(* The main loop's poll of the flag:                                       *)
(*     if (mpuHandInterrupt) { mpuHandInterrupt = false;                   *)
(*                             update_motion_mpu6050_hand(); }             *)
(* The flag is cleared before the read, so that a data-ready signal that   *)
(* arrives during the read is kept for the next poll.  The test and the    *)
(* clear are one step: an interrupt between them finds the flag set and    *)
(* is the same as one just before the test.                                *)
poll_motion ==
    /\ pc = "idle"
    /\ IF mpuHandInterrupt
       THEN /\ nReads < MaxReads
            /\ mpuHandInterrupt' = FALSE
            /\ fired' = FALSE
            /\ firings' = 0
            /\ forced' = FALSE
            /\ lastPoll' = "ran"
            /\ nReads' = nReads + 1
            /\ pc' = "read"
       ELSE /\ lastPoll' = "skipped"
            /\ UNCHANGED << mpuHandInterrupt, fired, firings, forced, nReads, pc >>
    /\ UNCHANGED << motionState, skipPacket, inBinPacket, mode, attached,
                    sleepEnabled, payload, lastTx, gate, sinceEnable,
                    lastEnable, nModes >>

(* update_motion_mpu6050_hand, line 126: the burst read of the six axes *)
update_read ==
    /\ pc = "read"
    /\ \E r \in RawInputs :
          /\ aaRaw' = << r[1], r[2], r[3] >>
          /\ gvRaw' = << r[4], r[5], r[6] >>
    /\ pc' = "filter"
    /\ UNCHANGED << mpuHandInterrupt, aa, aa0, gv, gv0, skipPacket,
                    inBinPacket, mode, attached, sleepEnabled, payload,
                    lastTx, history >>

(* A filter step that keeps the raw reading as its shadow *)
update_filter_shadow_raw ==
    /\ pc = "filter"
    /\ aa0' = aaRaw
    /\ gv0' = gvRaw
    /\ aa' \in Smooth3(aa, aaRaw)
    /\ gv' \in Smooth3(gv, gvRaw)
    /\ sinceEnable' = IF sinceEnable < 2 THEN sinceEnable + 1 ELSE 2
    /\ pc' = "dispatch"
    /\ UNCHANGED << mpuHandInterrupt, aaRaw, gvRaw, skipPacket, inBinPacket,
                    mode, attached, sleepEnabled, payload, lastTx,
                    gate, fired, firings, forced, lastEnable, lastPoll,
                    nReads, nModes >>

(* lines 128-142: the previous filtered values go to aa0 and gv0, then    *)
(* the filter is applied axis by axis                                      *)
update_filter ==
    /\ pc = "filter"
    /\ aa0' = aa
    /\ gv0' = gv
    /\ aa' \in Smooth3(aa, aaRaw)
    /\ gv' \in Smooth3(gv, gvRaw)
    /\ sinceEnable' = IF sinceEnable < 2 THEN sinceEnable + 1 ELSE 2
    /\ pc' = "dispatch"
    /\ UNCHANGED << mpuHandInterrupt, aaRaw, gvRaw, skipPacket, inBinPacket,
                    mode, attached, sleepEnabled, payload, lastTx,
                    gate, fired, firings, forced, lastEnable, lastPoll, nReads, nModes >>

(* A dispatch that reads again, without a poll, when the flag is set *)
update_dispatch_rerun ==
    /\ pc = "dispatch"
    /\ \E cb \in Callbacks :
          /\ payload' = MotionPayload(aa, gv)
          /\ skipPacket' = GateSkip(cb)
          /\ LET tx == GateSend(skipPacket', "motion_data", payload')
             IN  /\ lastTx' = IF tx = << >> THEN lastTx ELSE tx[Len(tx)]
                 /\ gate' = [ev |-> "data", registered |-> cb.registered,
                             ret |-> cb.ret, sent |-> Len(tx),
                             before |-> skipPacket]
    /\ pc' = IF mpuHandInterrupt THEN "read" ELSE "idle"
    /\ UNCHANGED << mpuHandInterrupt, motionState, inBinPacket, mode,
                    attached, sleepEnabled, fired, firings, forced, sinceEnable,
                    lastEnable, lastPoll, nReads, nModes >>

(* A dispatch that encodes the raw reading *)
update_dispatch_raw ==
    /\ pc = "dispatch"
    /\ \E cb \in Callbacks :
          /\ payload' = MotionPayload(aaRaw, gvRaw)
          /\ skipPacket' = GateSkip(cb)
          /\ LET tx == GateSend(skipPacket', "motion_data", payload')
             IN  /\ lastTx' = IF tx = << >> THEN lastTx ELSE tx[Len(tx)]
                 /\ gate' = [ev |-> "data", registered |-> cb.registered,
                             ret |-> cb.ret, sent |-> Len(tx),
                             before |-> skipPacket]
    /\ pc' = "idle"
    /\ UNCHANGED << mpuHandInterrupt, motionState, inBinPacket, mode,
                    attached, sleepEnabled, fired, firings, forced, sinceEnable,
                    lastEnable, lastPoll, nReads, nModes >>

(* A dispatch that clears the flag when the sequence is done *)
update_dispatch_clear ==
    /\ pc = "dispatch"
    /\ \E cb \in Callbacks :
          /\ payload' = MotionPayload(aa, gv)
          /\ skipPacket' = GateSkip(cb)
          /\ LET tx == GateSend(skipPacket', "motion_data", payload')
             IN  /\ lastTx' = IF tx = << >> THEN lastTx ELSE tx[Len(tx)]
                 /\ gate' = [ev |-> "data", registered |-> cb.registered,
                             ret |-> cb.ret, sent |-> Len(tx),
                             before |-> skipPacket]
    /\ mpuHandInterrupt' = FALSE
    /\ pc' = "idle"
    /\ UNCHANGED << motionState, inBinPacket, mode,
                    attached, sleepEnabled, fired, firings, forced, sinceEnable,
                    lastEnable, lastPoll, nReads, nModes >>

(* A dispatch without "skipPacket = 0": an earlier veto stays in force *)
update_dispatch_sticky ==
    /\ pc = "dispatch"
    /\ \E cb \in Callbacks :
          /\ payload' = MotionPayload(aa, gv)
          /\ skipPacket' = IF cb.registered THEN cb.ret ELSE skipPacket
          /\ LET tx == GateSend(skipPacket', "motion_data", payload')
             IN  /\ lastTx' = IF tx = << >> THEN lastTx ELSE tx[Len(tx)]
                 /\ gate' = [ev |-> "data", registered |-> cb.registered,
                             ret |-> cb.ret, sent |-> Len(tx),
                             before |-> skipPacket]
    /\ pc' = "idle"
    /\ UNCHANGED << mpuHandInterrupt, motionState, inBinPacket, mode,
                    attached, sleepEnabled, fired, firings, forced, sinceEnable,
                    lastEnable, lastPoll, nReads, nModes >>

(* A dispatch that takes the filter step back when the event is vetoed *)
update_dispatch_rollback ==
    /\ pc = "dispatch"
    /\ \E cb \in Callbacks :
          /\ payload' = MotionPayload(aa, gv)
          /\ skipPacket' = GateSkip(cb)
          /\ aa' = IF skipPacket' = 0 THEN aa ELSE aa0
          /\ gv' = IF skipPacket' = 0 THEN gv ELSE gv0
          /\ LET tx == GateSend(skipPacket', "motion_data", payload')
             IN  /\ lastTx' = IF tx = << >> THEN lastTx ELSE tx[Len(tx)]
                 /\ gate' = [ev |-> "data", registered |-> cb.registered,
                             ret |-> cb.ret, sent |-> Len(tx),
                             before |-> skipPacket]
    /\ pc' = "idle"
    /\ UNCHANGED << mpuHandInterrupt, aaRaw, aa0, gvRaw, gv0, inBinPacket,
                    mode, attached, sleepEnabled, fired, firings, forced,
                    sinceEnable, lastEnable, lastPoll, nReads, nModes >>

(* lines 144-163: the kg_evt_motion_data payload is built from the        *)
(* filtered vectors, offered to the callback and sent unless vetoed        *)
update_dispatch ==
    /\ pc = "dispatch"
    /\ \E cb \in Callbacks :
          /\ payload' = MotionPayload(aa, gv)
          /\ skipPacket' = GateSkip(cb)
          /\ LET tx == GateSend(skipPacket', "motion_data", payload')
             IN  /\ lastTx' = IF tx = << >> THEN lastTx ELSE tx[Len(tx)]
                 /\ gate' = [ev |-> "data", registered |-> cb.registered,
                             ret |-> cb.ret, sent |-> Len(tx),
                             before |-> skipPacket]
    /\ pc' = "idle"
    /\ UNCHANGED << mpuHandInterrupt, motionState, inBinPacket, mode,
                    attached, sleepEnabled, fired, firings, forced, sinceEnable,
                    lastEnable, lastPoll, nReads, nModes >>

update_motion_mpu6050_hand ==
    \/ update_read
    \/ update_filter
    \/ update_dispatch

----------------------------------------------------------------------------
(* motion_set_mpu6050_hand_mode(m), called from the polling context, by   *)
(* a received binary command (inBinPacket) or by the application.          *)

(* An enable that leaves the filtered vectors as they are *)
mode_enable_reset_keep ==
    /\ pc = "idle"
    /\ nModes < MaxModes
    /\ \E m \in ModeArgs \ { 0 }, b \in BOOLEAN :
          /\ mode' = m
          /\ inBinPacket' = b
    /\ mpuHandInterrupt' = TRUE
    /\ forced' = TRUE
    /\ sinceEnable' = 0
    /\ lastEnable' = [stale |-> (aa # Zero3 \/ gv # Zero3), from |-> mode]
    /\ nModes' = nModes + 1
    /\ pc' = "attach"
    /\ UNCHANGED << motionState, skipPacket, attached,
                    sleepEnabled, payload, lastTx, gate, fired, firings,
                    lastPoll, nReads >>

(* An enable that does not force the flag *)
mode_enable_reset_noforce ==
    /\ pc = "idle"
    /\ nModes < MaxModes
    /\ \E m \in ModeArgs \ { 0 }, b \in BOOLEAN :
          /\ mode' = m
          /\ inBinPacket' = b
    /\ aa' = Zero3
    /\ gv' = Zero3
    /\ sinceEnable' = 0
    /\ lastEnable' = [stale |-> (aa # Zero3 \/ gv # Zero3), from |-> mode]
    /\ nModes' = nModes + 1
    /\ pc' = "attach"
    /\ UNCHANGED << mpuHandInterrupt, aaRaw, aa0, gvRaw, gv0, skipPacket,
                    attached, sleepEnabled, payload, lastTx, gate, fired,
                    firings, forced, lastPoll, nReads >>

(* the call with m != 0, lines 68-71: the filtered vectors are zeroed and *)
(* the flag is forced                                                      *)
mode_enable_reset ==
    /\ pc = "idle"
    /\ nModes < MaxModes
    /\ \E m \in ModeArgs \ { 0 }, b \in BOOLEAN :
          /\ mode' = m
          /\ inBinPacket' = b
    /\ aa' = Zero3
    /\ gv' = Zero3
    /\ mpuHandInterrupt' = TRUE
    /\ forced' = TRUE
    /\ sinceEnable' = 0
    /\ lastEnable' = [stale |-> (aa # Zero3 \/ gv # Zero3), from |-> mode]
    /\ nModes' = nModes + 1
    /\ pc' = "attach"
    /\ UNCHANGED << aaRaw, aa0, gvRaw, gv0, skipPacket, attached,
                    sleepEnabled, payload, lastTx, gate, fired, firings,
                    lastPoll, nReads >>

(* line 72: attachInterrupt *)
mode_enable_attach ==
    /\ pc = "attach"
    /\ attached' = TRUE
    /\ pc' = "wake"
    /\ UNCHANGED << mpuHandInterrupt, motionState, skipPacket, inBinPacket,
                    mode, sleepEnabled, payload, lastTx, history >>

(* line 73: mpuHand.setSleepEnabled(false) *)
mode_enable_wake ==
    /\ pc = "wake"
    /\ sleepEnabled' = FALSE
    /\ pc' = "mode_event"
    /\ UNCHANGED << mpuHandInterrupt, motionState, skipPacket, inBinPacket,
                    mode, attached, payload, lastTx, history >>

(* A disable that zeroes the filtered vectors as an enable does *)
mode_disable_sleep_reset ==
    /\ pc = "idle"
    /\ nModes < MaxModes
    /\ mode' = 0
    /\ \E b \in BOOLEAN : inBinPacket' = b
    /\ aa' = Zero3
    /\ gv' = Zero3
    /\ sleepEnabled' = TRUE
    /\ nModes' = nModes + 1
    /\ pc' = "detach"
    /\ UNCHANGED << mpuHandInterrupt, aaRaw, aa0, gvRaw, gv0, skipPacket,
                    attached, payload, lastTx, gate, fired, firings, forced,
                    sinceEnable, lastEnable, lastPoll, nReads >>

(* the call with m = 0, line 75: mpuHand.setSleepEnabled(true) *)
mode_disable_sleep ==
    /\ pc = "idle"
    /\ nModes < MaxModes
    /\ mode' = 0
    /\ \E b \in BOOLEAN : inBinPacket' = b
    /\ sleepEnabled' = TRUE
    /\ nModes' = nModes + 1
    /\ pc' = "detach"
    /\ UNCHANGED << mpuHandInterrupt, motionState, skipPacket, attached,
                    payload, lastTx, gate, fired, firings, forced,
                    sinceEnable, lastEnable, lastPoll, nReads >>

(* line 76: detachInterrupt *)
mode_disable_detach ==
    /\ pc = "detach"
    /\ attached' = FALSE
    /\ pc' = "mode_event"
    /\ UNCHANGED << mpuHandInterrupt, motionState, skipPacket, inBinPacket,
                    mode, sleepEnabled, payload, lastTx, history >>

(* An event step that does not look at inBinPacket *)
mode_event_echo ==
    /\ pc = "mode_event"
    /\ \E cb \in Callbacks :
          /\ payload' = ModePayload(mode)
          /\ skipPacket' = GateSkip(cb)
          /\ LET tx == GateSend(skipPacket', "motion_mode", payload')
             IN  /\ lastTx' = IF tx = << >> THEN lastTx ELSE tx[Len(tx)]
                 /\ gate' = [ev |-> "mode", registered |-> cb.registered,
                             ret |-> cb.ret, sent |-> Len(tx),
                             before |-> skipPacket]
    /\ pc' = "idle"
    /\ UNCHANGED << mpuHandInterrupt, motionState, inBinPacket, mode,
                    attached, sleepEnabled, fired, firings, forced,
                    sinceEnable, lastEnable, lastPoll, nReads, nModes >>

(* lines 79-85: unless a binary command is being replayed, the            *)
(* kg_evt_motion_mode payload is built, offered to the callback and sent   *)
(* unless vetoed                                                           *)
mode_event ==
    /\ pc = "mode_event"
    /\ IF ~inBinPacket
       THEN /\ \E cb \in Callbacks :
                  /\ payload' = ModePayload(mode)
                  /\ skipPacket' = GateSkip(cb)
                  /\ LET tx == GateSend(skipPacket', "motion_mode", payload')
                     IN  /\ lastTx' = IF tx = << >> THEN lastTx
                                                   ELSE tx[Len(tx)]
                         /\ gate' = [ev |-> "mode",
                                     registered |-> cb.registered,
                                     ret |-> cb.ret, sent |-> Len(tx),
                             before |-> skipPacket]
       ELSE UNCHANGED << payload, skipPacket, lastTx, gate >>
    /\ pc' = "idle"
    /\ UNCHANGED << mpuHandInterrupt, motionState, inBinPacket, mode,
                    attached, sleepEnabled, fired, firings, forced, sinceEnable,
                    lastEnable, lastPoll, nReads, nModes >>

motion_set_mpu6050_hand_mode ==
    \/ mode_enable_reset
    \/ mode_enable_attach
    \/ mode_enable_wake
    \/ mode_disable_sleep
    \/ mode_disable_detach
    \/ mode_event

----------------------------------------------------------------------------
Next ==
    \/ motion_mpu6050_hand_interrupt
    \/ setup_motion_mpu6050_hand
    \/ poll_motion
    \/ update_motion_mpu6050_hand
    \/ motion_set_mpu6050_hand_mode

Spec == Init /\ [][Next]_vars

----------------------------------------------------------------------------
(* Positions of the polling context inside a read sequence *)
InSequence == pc \in { "read", "filter", "dispatch" }

(* The step that ends a read sequence *)
SequenceEnds == pc = "dispatch" /\ pc' = "idle"

(* The step by which a poll starts a read sequence *)
SequenceStarts == pc # "read" /\ pc' = "read"

(* C1, as stated: a poll that finds the Latch false runs no read          *)
(* sequence; a poll that finds it true runs exactly one, and the Latch is  *)
(* false immediately after that sequence.                                  *)
C1_LatchFalseAfterSequence ==
    [][ /\ (pc = "idle" /\ ~mpuHandInterrupt) => pc' # "read"
        /\ SequenceStarts => (mpuHandInterrupt /\ nReads' = nReads + 1)
        /\ SequenceEnds => ~mpuHandInterrupt' ]_vars

(* C1, amended: a poll that finds the Latch false runs no read sequence   *)
(* and changes nothing of the program's state; a poll that finds it true   *)
(* clears it and runs exactly one sequence, which ends back at the poll    *)
(* loop; the Latch is false immediately after that sequence unless an      *)
(* interrupt fired during it, and is true then.  A sequence is only ever   *)
(* started by a poll, on a Latch that it clears: one interrupt is not      *)
(* processed twice.                                                        *)
C1_LatchSemantics ==
    [][ /\ (pc = "idle" /\ ~mpuHandInterrupt) => pc' # "read"
        /\ (lastPoll' = "skipped" /\ lastPoll # "skipped") =>
              /\ ~mpuHandInterrupt
              /\ UNCHANGED << pc, mpuHandInterrupt, motionState, skipPacket,
                              payload, lastTx, gate, nReads >>
        /\ SequenceStarts =>
              /\ pc = "idle"
              /\ mpuHandInterrupt /\ ~mpuHandInterrupt'
              /\ ~fired'
              /\ nReads' = nReads + 1
        /\ InSequence => nReads' = nReads
        /\ (pc = "dispatch" /\ pc' # pc) => pc' = "idle"
        /\ SequenceEnds => (mpuHandInterrupt' <=> fired') ]_vars

(* C1 witness: a poll found the Latch set and its sequence has run to the *)
(* end, no interrupt having fired since the poll cleared the Latch         *)
C1_Witness ==
    /\ pc = "idle"
    /\ lastPoll = "ran"
    /\ gate.ev = "data"
    /\ nReads = 1
    /\ ~fired
    /\ ~mpuHandInterrupt

(* C2, as stated: the Latch is true if and only if a data-ready interrupt *)
(* has fired since the Latch was last cleared.                             *)
C2_LatchIffFired == mpuHandInterrupt <=> fired

(* C2, amended: the Latch is true if and only if, since it was last       *)
(* cleared (by a poll or by setup), a data-ready interrupt has fired or a  *)
(* mode change to Enabled has forced it.                                   *)
C2_LatchIffFiredOrForced == mpuHandInterrupt <=> (fired \/ forced)

(* C2 witness: after a poll has cleared the Latch, an interrupt has set it *)
C2_Witness ==
    /\ nReads >= 1
    /\ mpuHandInterrupt
    /\ fired
    /\ ~forced

(* C3: an interrupt that fires while a read sequence is in progress is    *)
(* not lost: from the moment it fires to the end of the sequence the Latch *)
(* is true, so the next poll starts a further read; and a sequence is only *)
(* started from the poll loop, never while another is in flight.           *)
C3_NoLostInterrupt ==
    [][ /\ (InSequence /\ fired') => mpuHandInterrupt'
        /\ (SequenceEnds /\ fired) => (mpuHandInterrupt' /\ fired')
        /\ SequenceStarts => pc = "idle" ]_vars

(* C3 witness: an interrupt has fired during the sequence in flight *)
C3_Witness ==
    /\ pc = "dispatch"
    /\ fired
    /\ mpuHandInterrupt

(* raw / 4 with the fraction dropped: what one filter step makes of a     *)
(* zero filtered value                                                     *)
QuarterOf(raw) == << TruncQuarters(raw[1]), TruncQuarters(raw[2]),
                     TruncQuarters(raw[3]) >>

(* C4: a mode change to Enabled zeroes the filtered vectors aa and gv     *)
(* before the next filter step, whatever they held: they are zero from     *)
(* the transition to that step, and the step's result is the raw reading   *)
(* quartered, (0,0,0,0,0,0) for a raw reading of zero, with nothing of the *)
(* filtered values from before the transition in it.                       *)
C4_EnableZeroesFilter ==
    /\ sinceEnable = 0 => (aa = Zero3 /\ gv = Zero3)
    /\ (pc = "dispatch" /\ sinceEnable = 1) =>
          /\ aa0 = Zero3 /\ gv0 = Zero3
          /\ aa = QuarterOf(aaRaw)
          /\ gv = QuarterOf(gvRaw)
          /\ (aaRaw = Zero3 /\ gvRaw = Zero3) => (aa = Zero3 /\ gv = Zero3)

(* C4 witness: the mode went from Disabled to Enabled with non-zero       *)
(* filtered values, and the first filter step since, on a raw reading of   *)
(* zero, has given zero                                                    *)
C4_Witness ==
    /\ pc = "dispatch"
    /\ sinceEnable = 1
    /\ lastEnable.stale
    /\ lastEnable.from = 0
    /\ aaRaw = Zero3 /\ gvRaw = Zero3
    /\ aa = Zero3 /\ gv = Zero3

(* filtered_prev + 0.25 * (raw - filtered_prev) over the integers, the    *)
(* fraction dropped                                                        *)
ExactSmooth(prev, raw) == TruncQuarters(4 * prev + (raw - prev))

(* C5: each filter step gives, on each of the six axes by itself,         *)
(* filtered_prev + 0.25 * (raw - filtered_prev) truncated to an integer,   *)
(* for all signed 16-bit filtered_prev and raw.                            *)
C5_FilterFormula ==
    pc = "dispatch" =>
        \A i \in 1..3 :
            /\ aa[i] = ExactSmooth(aa0[i], aaRaw[i])
            /\ gv[i] = ExactSmooth(gv0[i], gvRaw[i])

Distance(a, b) == IF a >= b THEN a - b ELSE b - a

(* The filtered value went from prev to new on a raw reading r: no        *)
(* farther from r than it was, and not across r                            *)
TowardNoOvershoot(prev, new, r) ==
    /\ Distance(new, r) <= Distance(prev, r)
    /\ prev <= r => new <= r
    /\ prev >= r => new >= r

(* C6: over read sequences whose raw reading of an axis is the same r,    *)
(* each filter step leaves the filtered value of that axis no farther     *)
(* from r than it was and on the same side of r, for every filtered value  *)
(* it starts from and every r in the signed 16-bit range.                  *)
C6_MonotoneNoOvershoot ==
    pc = "dispatch" =>
        \A i \in 1..3 :
            /\ TowardNoOvershoot(aa0[i], aa[i], aaRaw[i])
            /\ TowardNoOvershoot(gv0[i], gv[i], gvRaw[i])

----------------------------------------------------------------------------
(* The encoder by itself: a read sequence that has filtered and is about  *)
(* to build its event, the filtered vectors drawn from sample values of    *)
(* the signed 16-bit range (both ends, both signs, values on either side   *)
(* of a byte boundary).                                                    *)
EncodeSamples == { -32768, -300, -1, 0, 1, 300, 32767 }

InitEncode ==
    /\ pc = "dispatch"
    /\ mpuHandInterrupt = FALSE
    /\ aaRaw = Zero3 /\ aa0 = Zero3
    /\ gvRaw = Zero3 /\ gv0 = Zero3
    /\ aa \in EncodeSamples \X EncodeSamples \X EncodeSamples
    /\ gv \in EncodeSamples \X EncodeSamples \X EncodeSamples
    /\ skipPacket = 0
    /\ inBinPacket = FALSE
    /\ mode = 1
    /\ attached = TRUE
    /\ sleepEnabled = FALSE
    /\ payload = ModePayload(1)
    /\ lastTx = [id |-> "motion_mode", len |-> 2, data |-> ModePayload(1)]
    /\ gate = [ev |-> "mode", registered |-> FALSE, ret |-> 0, sent |-> 1,
               before |-> 0]
    /\ fired = FALSE
    /\ firings = 0
    /\ forced = FALSE
    /\ sinceEnable = 2
    /\ lastEnable = [stale |-> FALSE, from |-> 0]
    /\ lastPoll = "ran"
    /\ nReads = MaxReads
    /\ nModes = MaxModes

NextEncode == update_dispatch

SpecEncode == InitEncode /\ [][NextEncode]_vars

(* Two payload bytes read as a little-endian signed 16-bit word *)
DecodeWord(lo, hi) ==
    LET u == lo + 256 * hi
    IN  IF u >= 32768 THEN u - 65536 ELSE u

(* Bytes 3..14 of a motion-data payload (p[4]..p[15] here) read as six    *)
(* little-endian signed 16-bit words                                       *)
DecodeData(p) == [ i \in 1..6 |-> DecodeWord(p[2 * i + 2], p[2 * i + 3]) ]

(* C7: decoding bytes 3..14 of the motion-data payload as six             *)
(* little-endian signed 16-bit words gives back exactly                    *)
(* (aa.x, aa.y, aa.z, gv.x, gv.y, gv.z), negative values included.         *)
C7_EncodeRoundTrip ==
    pc = "idle" =>
        /\ Len(payload) = 15
        /\ \A i \in 4..15 : payload[i] \in 0..255
        /\ DecodeData(payload) = aa \o gv

(* C7 witness: the payload of aa = (1,-1,300), gv = (-300,0,32767) *)
C7_Witness ==
    /\ pc = "idle"
    /\ gate.ev = "data"
    /\ aa = << 1, -1, 300 >>
    /\ gv = << -300, 0, 32767 >>
    /\ payload = << 0, 3, 12, 1, 0, 255, 255, 44, 1, 212, 254, 0, 0, 255, 127 >>

(* C8: the payload a read sequence builds is 15 bytes, 0x00 0x03 0x0C     *)
(* then ax, ay, az, gx, gy, gz, each the filtered value this sequence's    *)
(* filter step has just produced; from filtered values of zero and a raw   *)
(* reading (1000,0,0,0,0,0), bytes 3-4 are 0xFA 0x00 and bytes 5-14 zero.  *)
C8_PayloadLayout ==
    [][ SequenceEnds =>
          /\ Len(payload') = 15
          /\ SubSeq(payload', 1, 3) = << 0, 3, 12 >>
          /\ DecodeData(payload') = aa \o gv
          /\ aa \in Smooth3(aa0, aaRaw)
          /\ gv \in Smooth3(gv0, gvRaw)
          /\ (aa0 = Zero3 /\ gv0 = Zero3 /\ aaRaw = << 1000, 0, 0 >>
                 /\ gvRaw = Zero3) =>
                payload' = << 0, 3, 12, 250, 0, 0, 0, 0, 0, 0, 0, 0, 0, 0, 0 >>
      ]_vars

(* C8 witness: the event of the raw reading (1000,0,0,0,0,0) filtered     *)
(* from zero                                                               *)
C8_Witness ==
    /\ pc = "idle"
    /\ gate.ev = "data"
    /\ aa0 = Zero3 /\ gv0 = Zero3
    /\ aaRaw = << 1000, 0, 0 >> /\ gvRaw = Zero3
    /\ payload = << 0, 3, 12, 250, 0, 0, 0, 0, 0, 0, 0, 0, 0, 0, 0 >>

(* The step that takes an event to the dispatch gate *)
MotionEventStep == SequenceEnds
ModeEventStep   == pc = "mode_event" /\ pc' = "idle" /\ ~inBinPacket

(* C9: for the motion-data and the mode-change event alike, a registered  *)
(* callback that returns non-zero keeps the payload from the transport;    *)
(* with no callback, or one that returns zero, exactly one packet, with    *)
(* this event's payload, is sent.                                          *)
C9_DispatchGate ==
    [][ (MotionEventStep \/ ModeEventStep) =>
          /\ gate'.ev = IF MotionEventStep THEN "data" ELSE "mode"
          /\ IF gate'.registered /\ gate'.ret # 0
             THEN gate'.sent = 0 /\ lastTx' = lastTx
             ELSE /\ gate'.sent = 1
                  /\ lastTx' = [id |-> IF MotionEventStep THEN "motion_data"
                                                          ELSE "motion_mode",
                                len |-> Len(payload'), data |-> payload']
      ]_vars

(* C9 witness: a motion-data event was vetoed after a mode-change event   *)
(* was sent: the transport still holds the mode-change packet              *)
C9_Witness ==
    /\ pc = "idle"
    /\ gate.ev = "data" /\ gate.registered /\ gate.ret = 1 /\ gate.sent = 0
    /\ Len(payload) = 15
    /\ lastTx.id = "motion_mode"

(* C10: a mode change made while no binary command is replayed builds     *)
(* exactly one mode-change event, payload [0, new mode], and offers it to  *)
(* the gate once the transition has taken effect: filtered vectors zero,   *)
(* Latch set, handler attached and sensor awake for Enabled; sensor asleep *)
(* and handler detached for Disabled.  No other step of the mode change    *)
(* builds or offers an event.                                              *)
C10_ModeEvent ==
    [][ /\ ModeEventStep =>
              /\ payload' = << 0, mode >>
              /\ gate'.ev = "mode"
              /\ IF mode # 0
                 THEN /\ aa = Zero3 /\ gv = Zero3
                      /\ mpuHandInterrupt
                      /\ attached
                      /\ ~sleepEnabled
                 ELSE sleepEnabled /\ ~attached
        /\ (nModes' # nModes \/ pc \in { "attach", "wake", "detach" }) =>
              /\ UNCHANGED << payload, gate, lastTx, skipPacket >>
              /\ pc' # "idle"
        /\ (pc = "mode_event" /\ pc' # pc) => pc' = "idle" ]_vars

(* C10 witness: the event of an application's change to mode 2 *)
C10_Witness ==
    /\ pc = "idle"
    /\ ~inBinPacket
    /\ mode = 2
    /\ gate.ev = "mode"
    /\ payload = << 0, 2 >>
    /\ attached

----------------------------------------------------------------------------
(* What a mode change has done by the time its event is due: for a change *)
(* to Enabled the filtered vectors are zero, the Latch is set, the handler *)
(* is attached and the sensor awake; for a change to Disabled the sensor   *)
(* is asleep and the handler detached                                      *)
TransitionApplied ==
    IF mode # 0
    THEN /\ aa = Zero3 /\ gv = Zero3
         /\ mpuHandInterrupt
         /\ attached
         /\ ~sleepEnabled
    ELSE sleepEnabled /\ ~attached

(* The last step of a mode change made by a received binary command *)
EchoStep == pc = "mode_event" /\ pc' = "idle" /\ inBinPacket

(* C11: a mode change caused by a received binary command (inBinPacket)   *)
(* builds no mode-change event, calls no callback and sends nothing,       *)
(* while the transition itself is applied as for any other mode change.    *)
C11_EchoSuppressed ==
    [][ /\ EchoStep =>
              /\ UNCHANGED << payload, skipPacket, lastTx, gate >>
              /\ TransitionApplied
        /\ (pc \in { "attach", "wake", "detach" } /\ pc' # pc) =>
              UNCHANGED << payload, skipPacket, lastTx, gate >>
        /\ (pc = "mode_event" /\ pc' # pc) => TransitionApplied ]_vars

(* C11 witness: a binary command has enabled the sensor and no event has  *)
(* been offered or sent                                                    *)
C11_Witness ==
    /\ pc = "idle"
    /\ inBinPacket
    /\ nModes = 1
    /\ mode = 1
    /\ attached /\ ~sleepEnabled /\ mpuHandInterrupt
    /\ gate = NoOffer
    /\ lastTx = NoPacket
    /\ payload = << >>

(* A poll takes place in this step: it starts a sequence or finds the     *)
(* Latch clear                                                             *)
PollStep == pc = "idle" /\ (nReads' # nReads \/ lastPoll' # lastPoll)

(* C12: a mode change to Enabled forces the Latch, which stays set until  *)
(* a poll clears it, so the first poll after the change starts a read      *)
(* sequence, whether or not an interrupt has fired since.                  *)
C12_NoStartupStall ==
    [][ /\ (sinceEnable' = 0 /\ pc' \notin { "read", "filter" }) =>
              mpuHandInterrupt'
        /\ (PollStep /\ sinceEnable = 0) =>
              (pc' = "read" /\ nReads' = nReads + 1) ]_vars

(* C12 witness: the first poll after the first enable has started a read, *)
(* no handler having been attached before that enable and no interrupt     *)
(* having fired since the poll                                             *)
C12_Witness ==
    /\ pc = "read"
    /\ nModes = 1
    /\ nReads = 1
    /\ sinceEnable = 0
    /\ lastPoll = "ran"
    /\ ~fired

(* A step of the interrupt context: the polling context stays where it is *)
(* and has not polled                                                      *)
InterruptStep == pc' = pc /\ lastPoll' = lastPoll /\ vars' # vars

(* C13: the ISR sets the Latch and changes nothing else, wherever it      *)
(* interrupts the polling context: Motion State, mode, sensor power state, *)
(* skipPacket stay as they are and no event is built or sent.              *)
C13_InterruptFrame ==
    [][ InterruptStep =>
          /\ mpuHandInterrupt'
          /\ UNCHANGED << motionState, mode, sleepEnabled, attached,
                          skipPacket, inBinPacket, payload, lastTx, gate >>
      ]_vars

(* C13 witness: the ISR has run between the read and the filter of a      *)
(* sequence                                                                *)
C13_Witness ==
    /\ pc = "filter"
    /\ fired
    /\ mpuHandInterrupt
    /\ aaRaw = << 1000, 0, 0 >>

(* A step of motion_set_mpu6050_hand_mode(0) *)
DisableStep ==
    \/ (pc = "idle" /\ pc' = "detach")
    \/ (pc = "detach" /\ pc' = "mode_event")
    \/ (pc = "mode_event" /\ pc' = "idle" /\ mode = 0)

(* C14: a mode change to Disabled leaves aa, gv, aa0, gv0 and the raw     *)
(* vectors as they were, and the Latch too; it puts the sensor to sleep    *)
(* and detaches the handler.                                               *)
C14_DisableKeepsFilter ==
    [][ DisableStep =>
          /\ UNCHANGED << motionState, mpuHandInterrupt >>
          /\ sleepEnabled'
          /\ pc' # "detach" => ~attached' ]_vars

(* C14 witness: the mode went from Enabled to Disabled and the filtered   *)
(* vectors still hold what the last read left                              *)
C14_Witness ==
    /\ pc = "idle"
    /\ mode = 0
    /\ nModes = 2
    /\ sleepEnabled /\ ~attached
    /\ aa = << 250, 0, 0 >>
    /\ aaRaw = << 1000, 0, 0 >>

(* The step in which update_motion_mpu6050_hand filters *)
FilterStep == pc = "filter" /\ pc' = "dispatch"

(* C15: aa0 and gv0 are written by update_motion_mpu6050_hand alone, and  *)
(* what it writes is the filtered aa and gv of before the call, not the    *)
(* reading it has just taken; mode changes, interrupts and the dispatch    *)
(* leave them as they are.                                                 *)
C15_ShadowIsPrevious ==
    [][ /\ FilterStep => (aa0' = aa /\ gv0' = gv)
        /\ ~FilterStep => UNCHANGED << aa0, gv0 >> ]_vars

(* C15 witness: the second sequence since enable has filtered; the shadow *)
(* holds the first sequence's result, which is not the reading just taken  *)
C15_Witness ==
    /\ pc = "dispatch"
    /\ nReads = 2
    /\ aa0 = << 250, 0, 0 >>
    /\ aaRaw = << -32768, -1, 300 >>
    /\ gv0 = Zero3
    /\ aa0 # aa

(* No call of motion_set_mpu6050_hand_mode with mode != 0 has been made:  *)
(* sinceEnable leaves 2 at such a call and comes back to 2 only through    *)
(* two read sequences                                                      *)
NoEnableYet == sinceEnable = 2 /\ nReads = 0

(* The mode is Disabled, after having been Enabled, and the call that     *)
(* disabled it has put the sensor to sleep and detached the handler        *)
DisabledAfterEnabled ==
    /\ mode = 0
    /\ ~NoEnableYet
    /\ pc \notin { "detach", "mode_event" }

(* C16, as stated: from the change to Disabled until the next change to   *)
(* Enabled no ISR firing sets the Latch, no poll starts a read sequence    *)
(* and no motion-data event reaches the transport, whatever the Latch was  *)
(* at the change and whatever fired between the sleep and the detach.      *)
C16_DisabledInactive ==
    [][ (DisabledAfterEnabled /\ mode' = 0) =>
          /\ InterruptStep => UNCHANGED mpuHandInterrupt
          /\ ~SequenceStarts
          /\ ~InSequence
          /\ UNCHANGED lastTx \/ lastTx'.id # "motion_data" ]_vars

(* The only packet a call with mode 0 sends *)
DisabledPacket == [id |-> "motion_mode", len |-> 2, data |-> << 0, 0 >>]

(* C17, as stated: from setup until the first change to Enabled the Latch *)
(* stays false, no poll runs a read sequence, and neither a motion-data    *)
(* nor a mode-change event is emitted.                                     *)
C17_QuietUntilEnabled ==
    (NoEnableYet /\ pc # "boot") =>
        /\ ~mpuHandInterrupt
        /\ ~InSequence
        /\ lastPoll # "ran"
        /\ lastTx = NoPacket

(* C17, amended: from setup until the first change to Enabled the Latch   *)
(* stays false and no handler is attached, no poll runs a read sequence    *)
(* and no motion-data event is offered or sent; the one event that can be  *)
(* sent is the mode-change event of a call with mode 0 made outside a      *)
(* binary command, whose payload is (0x00, 0x00).                          *)
C17_NoReadUntilEnabled ==
    (NoEnableYet /\ pc # "boot") =>
        /\ ~mpuHandInterrupt
        /\ ~attached
        /\ ~InSequence
        /\ lastPoll # "ran"
        /\ gate.ev # "data"
        /\ lastTx \in { NoPacket, DisabledPacket }
        /\ (lastTx = DisabledPacket) => gate.ev = "mode"

(* C17 witness: before any enable, a poll has found the Latch clear and a *)
(* call with mode 0 has sent its mode-change event                         *)
C17_Witness ==
    /\ pc = "idle"
    /\ NoEnableYet
    /\ nModes = 1
    /\ lastPoll = "skipped"
    /\ lastTx = DisabledPacket
    /\ gate.sent = 1

(* C18: however many times the ISR has fired since the Latch was last     *)
(* cleared, the Latch is simply set: the next poll clears it and starts    *)
(* one read sequence, after which nothing is left over from those          *)
(* firings.  The ISR waits for nothing: while its handler is attached it  *)
(* can run at every point of a read sequence or of a mode change.          *)
C18_NoInterruptQueue ==
    [][ /\ (firings' > 0) => mpuHandInterrupt'
        /\ (PollStep /\ firings > 0) =>
              /\ pc' = "read"
              /\ nReads' = nReads + 1
              /\ ~mpuHandInterrupt'
              /\ firings' = 0
        /\ (PollStep /\ firings = 0 /\ ~forced) => pc' = "idle"
        /\ (attached /\ pc # "idle") =>
              ENABLED motion_mpu6050_hand_interrupt ]_vars

(* C18 witness: one read sequence has run and the ISR has since fired     *)
(* twice before the next poll, the Latch being set by it alone             *)
C18_Witness ==
    /\ pc = "idle"
    /\ nReads = 1
    /\ lastPoll = "ran"
    /\ firings = 2
    /\ ~forced
    /\ mpuHandInterrupt

(* C19: skipPacket is set to 0 before each gate decision, so what it held *)
(* from an earlier event (gate.before) has no part in this one: after the  *)
(* event it holds this event's callback result, or 0 without a callback,   *)
(* and the event is kept back exactly when that result is non-zero.        *)
C19_VetoOneEvent ==
    [][ (MotionEventStep \/ ModeEventStep) =>
          /\ gate'.before = skipPacket
          /\ skipPacket' = IF gate'.registered THEN gate'.ret ELSE 0
          /\ (gate'.sent = 0) <=> (gate'.registered /\ gate'.ret # 0)
          /\ (gate'.sent = 1) <=> (~gate'.registered \/ gate'.ret = 0) ]_vars

(* C19 witness: the event before was vetoed (skipPacket was 1), this      *)
(* motion-data event found no callback registered and was sent             *)
C19_Witness ==
    /\ pc = "idle"
    /\ gate.ev = "data"
    /\ gate.before = 1
    /\ ~gate.registered
    /\ gate.sent = 1
    /\ skipPacket = 0
    /\ lastTx.id = "motion_data"
    /\ lastTx.data = payload

(* C20: the gate's decision touches the transport alone.  The dispatch    *)
(* step leaves aaRaw, gvRaw, aa0, gv0, aa and gv as the filter left them   *)
(* whether the event is sent or vetoed, and a sequence that follows a      *)
(* vetoed event starts, shadows and filters as after a sent one.           *)
C20_VetoKeepsFilter ==
    [][ /\ SequenceEnds => UNCHANGED motionState
        /\ (PollStep /\ mpuHandInterrupt) => pc' = "read"
        /\ FilterStep =>
              /\ aa0' = aa /\ gv0' = gv
              /\ aa' \in Smooth3(aa, aaRaw)
              /\ gv' \in Smooth3(gv, gvRaw)
              /\ UNCHANGED << aaRaw, gvRaw >> ]_vars

(* C20 witness: two sequences since the enable, both vetoed; the second   *)
(* has filtered on top of the first                                        *)
C20_Witness ==
    /\ pc = "idle"
    /\ nReads = 2
    /\ sinceEnable = 2
    /\ gate.ev = "data"
    /\ gate.before = 1
    /\ gate.ret = 1
    /\ gate.sent = 0
    /\ aaRaw = << 1000, 0, 0 >>
    /\ aa0 = << 250, 0, 0 >>
    /\ aa = << 437, 0, 0 >>

============================================================================
